---- MODULE Spec2Model ----
(***************************************************************************)
(* The pipeline execution core of dagster/core/execution.py: the five      *)
(* entry operations, the scoped construction of the runtime execution      *)
(* context (yield_context, _create_resources, with_maybe_gen), the plan    *)
(* driver (_do_iterate_pipeline, _process_step_results), the subset        *)
(* builder (build_sub_pipeline) and the externalized plan runner.          *)
(*                                                                         *)
(* A run is one call of one entry operation.  The generator-based context  *)
(* managers of the source are modelled by what contextlib does with them:  *)
(* __enter__ runs the generator to its yield, __exit__ resumes it when the *)
(* body ended normally and throws the body's exception into it (at the     *)
(* yield) when the body raised.                                            *)
(***************************************************************************)
EXTENDS Integers, Sequences, FiniteSets, TLC

\* Bounds of the model.
MaxResources == 2
MaxSteps == 2
MaxSolids == 2
MaxStream == 3
MaxMarshal == 2
MaxTagKeys == 2
MaxPersistence == 2
MaxSubSolids == 3
MaxSubset == 3

\* The user context factory is the acquisition number 0; the declared
\* resources are 1..nres, in the order of context_def.resources.keys().
UserContext == 0

Ops ==
    {"create_execution_plan", "execute_pipeline", "execute_pipeline_iterator",
     "execute_plan", "execute_externalized_plan"}

PipelineOps == {"execute_pipeline", "execute_pipeline_iterator"}

\* What a context_fn / resource_fn can be, as with_maybe_gen sees it on entry:
\*   direct    a plain object (wrapped by _ensure_gen in a one-yield generator)
\*   gen       a generator: setup code, a yield, teardown code
\*   gen0      a generator that returns without yielding
\*   raises    the factory (or the setup code of its generator) raises
Shapes == {"direct", "gen", "gen0", "raises"}

\* The shapes whose generator has code after its first yield.
HasTeardown(shape) == shape = "gen"

\* What the teardown code of a generator does when it is resumed:
\*   returns   it runs to its end (StopIteration)
\*   yields    it runs up to a second yield
\*   raises    it raises
TeardownOutcomes == {"returns", "yields", "raises"}

VARIABLES
    op,                   \* the entry operation called
    throw_on_user_error,  \* its argument
    meta_given,           \* execution_metadata was passed (not None)
    env_valid,            \* evaluate_config_value(...).success for the raw environment
    nres,                 \* len(context_def.resources)
    persistence,          \* the keys of the persistence mapping of the environment, in items() order
    dependencies,         \* pipeline.dependency_structure: input handle -> output handle
    solid_subset,         \* argument of execute_pipeline
    pipeline_to_execute,  \* the local of execute_pipeline
    pc,                   \* position of the run
    ctx,                  \* shape of the entered user context, "none" when not entered
    stack,                \* ExitStack: the entered resources, [who, shape], oldest first
    exc,                  \* the exception in flight
    log,                  \* everything observable that happened, in order
    steps_left,           \* steps of the plan the engine has not reached yet
    step_results,         \* the StepResults produced by the engine, in arrival order
    emitted,              \* the last solid _process_step_results has looked at
    pipeline_success,     \* the local of _do_iterate_pipeline
    solid_results,        \* the SolidExecutionResults yielded by _process_step_results
    inputs_to_marshal,    \* argument of execute_externalized_plan, in iteration order
    outputs_to_marshal,   \* argument of execute_externalized_plan, in iteration order
    user_tags,            \* the tags of the ExecutionContext the user context factory made
    meta_tags,            \* execution_metadata.tags
    tags,                 \* the tags of the RuntimeExecutionContext
    persistence_policy,   \* the persistence policy of the RuntimeExecutionContext
    outcome,              \* what the caller got
    err                   \* the exception the caller got

vars ==
    <<op, throw_on_user_error, meta_given, env_valid, nres, persistence, dependencies,
      solid_subset, pipeline_to_execute, pc, ctx, stack, exc, log, steps_left, step_results, emitted, pipeline_success, solid_results,
      inputs_to_marshal, outputs_to_marshal, user_tags, meta_tags, tags,
      persistence_policy, outcome, err>>

args ==
    <<op, throw_on_user_error, meta_given, env_valid, nres, persistence, dependencies,
      solid_subset>>
engine_vars == <<steps_left, step_results, emitted, pipeline_success, solid_results>>
marshal_vars == <<inputs_to_marshal, outputs_to_marshal>>
context_vars == <<user_tags, meta_tags, tags, persistence_policy>>

\* ---------------------------------------------------------------------------
\* Exceptions and log entries

\* An exception: its class, where it was raised and whose code raised it.  The
\* errors of the externalized runner carry step_key (who), input_name or
\* output_name (name) and the exception they wrap (cause).
MarshalExc(kind, site, step, name, cause) ==
    [kind |-> kind, site |-> site, who |-> step, name |-> name, cause |-> cause]
Exc(kind, site, who) == MarshalExc(kind, site, who, "none", "none")
NoExc == Exc("none", "none", -1)

\* A call of the persistence policy: read_value or write_value (call) for the
\* input or output `name` of the step, with the path and the value read or
\* written, and the exception it raised ("none": it returned).
PolicyEntry(call, step, name, path, value, raised) ==
    [type |-> call, who |-> step, ok |-> raised = "none", shape |-> name,
     path |-> path, value |-> value, raised |-> raised]
Entry(type, who, ok, shape) ==
    [type |-> type, who |-> who, ok |-> ok, shape |-> shape,
     path |-> 0, value |-> 0, raised |-> "none"]
SetupEntry(who, shape) == Entry("setup", who, TRUE, shape)
TeardownEntry(who, shape) == Entry("teardown", who, TRUE, shape)
EventEntry(name) == Entry(name, -1, TRUE, "none")
StepEntry(solid, ok) == Entry("step", solid, ok, "none")
ResultEntry(solid, ok) == Entry("result", solid, ok, "none")
\* context.debug of the plan (lines 432-436, 440-444): n is the number of its steps
PlanEntry(n) == Entry("plan", n, TRUE, "none")

\* Tags are dicts from keys to values.  The key "pipeline" is PipelineKey, the
\* other keys are 1..MaxTagKeys; the values are pipeline.name and another one.
PipelineKey == 0
TagKeys == PipelineKey..MaxTagKeys
PipelineName == "P"
TagValues == {PipelineName, "other"}
NoTags == <<>>

\* Every dict of tags.
AnyTags == UNION {[keys -> TagValues] : keys \in SUBSET TagKeys}

\* The persistence mapping of the environment is the sequence of its keys in
\* the order of items(): the key "file" and a key that names no policy.
PersistenceKeys == {"file", "other"}
AnyPersistence ==
    {mapping \in UNION {[1..n -> PersistenceKeys] : n \in 0..MaxPersistence} :
        \A i, j \in DOMAIN mapping : mapping[i] = mapping[j] => i = j}
SinglePersistence == {mapping \in AnyPersistence : Len(mapping) = 1}

\* The solids of the pipeline given to execute_pipeline are 1..MaxSubSolids by
\* name, in a topological order; each has the inputs SolidInputNames and the
\* output DEFAULT_OUTPUT.  An input handle is <<solid, input>>, an output
\* handle [solid, output]; the dependency structure maps input handles that
\* have a dependency to the output handle they depend on.
SubSolids == 1..MaxSubSolids
SolidInputNames == {"num", "den"}
InputHandles == SubSolids \X SolidInputNames
OutputHandles == {[solid |-> s, output |-> "result"] : s \in SubSolids}
NoDependencies == <<>>
AnyDependencies ==
    {deps \in UNION {[handles -> OutputHandles] : handles \in SUBSET InputHandles} :
        \A h \in DOMAIN deps : deps[h].solid < h[1]}

\* Each solid but the first depends with its input "num" on the solid before.
ChainDependencies ==
    [h \in {g \in InputHandles : g[1] > 1 /\ g[2] = "num"} |->
        [solid |-> h[1] - 1, output |-> "result"]]

\* solid_subset: None, or a list of names of solids.
NoSubset == [none |-> TRUE, names |-> <<>>]
Subset(names) == [none |-> FALSE, names |-> names]
AnySubset == {Subset(names) : names \in UNION {[1..n -> SubSolids] : n \in 0..MaxSubset}}

\* A PipelineDefinition, as far as build_sub_pipeline makes it: its solids and
\* its dependencies, {solid: {input name: DependencyDefinition}}.
NoPipeline == [solids |-> {}, dependencies |-> <<>>]

\* ---------------------------------------------------------------------------
\* with_maybe_gen, as a context manager

\* (mutant) An adapter that accepts a generator which yields nothing.
WithMaybeGenEnterUnchecked(who, shape) ==
    IF shape = "raises" THEN Exc("UserSetupError", "factory", who) ELSE NoExc

\* __enter__: next(gen) runs the factory's setup code up to its first yield.
\* A generator that stops without yielding fails check.failed; a factory that
\* raises lets its exception through.
WithMaybeGenEnter(who, shape) ==
    CASE shape = "gen0" -> Exc("CheckError", "zero_items", who)
      [] shape = "raises" -> Exc("UserSetupError", "factory", who)
      [] OTHER -> NoExc

\* __exit__ with the exception e of the body (NoExc: the body ended normally).
\* contextlib resumes the generator after `yield thing` when there is no
\* exception, and the second next(gen) runs the factory's teardown code.  With
\* an exception it throws it in at `yield thing`, where with_maybe_gen has no
\* handler: the second next(gen) is not reached and the exception goes on.
\* td is what the teardown code does when it is run.
\* ran: the factory's teardown code was run; exc: the exception that leaves.
WithMaybeGenExit(who, shape, td, e) ==
    IF e # NoExc
    THEN [ran |-> FALSE, exc |-> e]
    ELSE IF ~HasTeardown(shape)
    THEN [ran |-> FALSE, exc |-> NoExc]
    ELSE CASE td = "yields" ->
                [ran |-> TRUE, exc |-> Exc("CheckError", "more_than_one", who)]
           [] td = "raises" ->
                [ran |-> TRUE, exc |-> Exc("UserTeardownError", "teardown", who)]
           [] OTHER -> [ran |-> TRUE, exc |-> NoExc]

\* (mutant) An exit stack that releases in acquisition order.
NextCallbackOldestFirst(stk) == 1

\* The callback ExitStack runs next on exit: the one entered last.
NextCallback(stk) == Len(stk)

RemoveAt(stk, i) == [j \in 1..(Len(stk) - 1) |-> IF j < i THEN stk[j] ELSE stk[j + 1]]

\* The entry operation ends: it returns, or the exception e reaches the caller.
\* A generator closed by its consumer swallows the GeneratorExit it was sent.
Finish(e) ==
    /\ pc' = "done"
    /\ exc' = NoExc
    /\ outcome' =
         IF e = NoExc
         THEN (IF op = "execute_pipeline_iterator" THEN "exhausted" ELSE "returned")
         ELSE IF e.kind = "GeneratorExit" THEN "closed" ELSE "raised"
    /\ err' = IF e.kind = "GeneratorExit" THEN NoExc ELSE e

\* The body of the scope is left with exception e (NoExc: normally).
Unwind(e) ==
    /\ pc' = "exit_scope"
    /\ exc' = e
    /\ UNCHANGED <<outcome, err>>

\* ---------------------------------------------------------------------------
\* The state after the call

FirstPc(o) ==
    CASE o = "execute_pipeline_iterator" -> "gen_created"
      [] o = "execute_pipeline" -> "get_subset_pipeline"
      [] OTHER -> "create_typed_environment"

Init ==
    /\ op \in Ops
    /\ throw_on_user_error \in BOOLEAN
    /\ env_valid \in BOOLEAN
    /\ nres \in 0..MaxResources
    /\ persistence \in AnyPersistence
    /\ dependencies = ChainDependencies
    /\ solid_subset \in (IF op = "execute_pipeline"
                          THEN {NoSubset, Subset(<<MaxSubSolids>>)}
                          ELSE {NoSubset})
    /\ pipeline_to_execute = NoPipeline
    \* only execute_externalized_plan leaves a missing execution_metadata as None
    /\ meta_given \in (IF op = "execute_externalized_plan" THEN BOOLEAN ELSE {TRUE})
    /\ pc = FirstPc(op)
    /\ ctx = "none"
    /\ stack = <<>>
    /\ exc = NoExc
    /\ log = <<>>
    /\ steps_left = 0
    /\ step_results = <<>>
    /\ emitted = 0
    /\ pipeline_success = TRUE
    /\ solid_results = <<>>
    /\ inputs_to_marshal = <<>>
    /\ outputs_to_marshal = <<>>
    /\ user_tags = NoTags
    /\ meta_tags = NoTags
    /\ tags = NoTags
    /\ persistence_policy = "none"
    /\ outcome = "running"
    /\ err = NoExc

\* ---------------------------------------------------------------------------
\* Before the context

\* dagster.utils.merge_dicts: a copy of left, updated with right.
MergeDicts(left, right) ==
    [k \in DOMAIN left \cup DOMAIN right |-> IF k \in DOMAIN right THEN right[k] ELSE left[k]]

\* The pipeline itself, in the form of the result of build_sub_pipeline.
WholePipeline(deps) ==
    [solids |-> SubSolids,
     dependencies |->
        [s \in SubSolids |->
            [input \in {i \in SolidInputNames : <<s, i>> \in DOMAIN deps} |-> deps[<<s, input>>]]]]

\* (mutant) A lookup that does not ask whether the producing solid is kept.
OutHandleOfInpAnySolid(deps, solid_name_set, input_handle) ==
    IF input_handle \in DOMAIN deps THEN <<deps[input_handle]>> ELSE <<>>

\* _out_handle_of_inp (lines 761-766): the output handle the input depends
\* on when its solid is kept, as a sequence of one; None is <<>>.
OutHandleOfInp(deps, solid_name_set, input_handle) ==
    IF input_handle \in DOMAIN deps
    THEN IF deps[input_handle].solid \in solid_name_set
         THEN <<deps[input_handle]>>
         ELSE <<>>
    ELSE <<>>

\* Lines 769-775 for one solid: the entries written to deps[_dep_key_of(solid)].
DependenciesOf(deps, solid_name_set, solid) ==
    [input \in {i \in SolidInputNames :
                   OutHandleOfInp(deps, solid_name_set, <<solid, i>>) # <<>>} |->
        LET output_handle == OutHandleOfInp(deps, solid_name_set, <<solid, input>>)[1]
        IN  [solid |-> output_handle.solid, output |-> output_handle.output]]

\* The loop of lines 768-775 over `solids`, a solid named twice included: the
\* entries of a solid are written over those sub_deps has for it.
RECURSIVE AddDependencies(_, _, _, _)
AddDependencies(deps, solid_name_set, solids, sub_deps) ==
    IF solids = <<>>
    THEN sub_deps
    ELSE LET solid == Head(solids) IN
         AddDependencies(deps, solid_name_set, Tail(solids),
                         [sub_deps EXCEPT
                            ![solid] = MergeDicts(@, DependenciesOf(deps, solid_name_set,
                                                                    solid))])

\* build_sub_pipeline (lines 747-780)
BuildSubPipeline(deps, solid_names) ==
    LET solid_name_set == {solid_names[i] : i \in 1..Len(solid_names)} IN
    [solids |-> solid_name_set,
     dependencies |->
        AddDependencies(deps, solid_name_set, solid_names,
                        [solid \in solid_name_set |-> <<>>])]

\* get_subset_pipeline (lines 806-809), for a solid_subset that names solids
\* of the pipeline.
GetSubsetPipeline ==
    /\ pc = "get_subset_pipeline"
    /\ pipeline_to_execute' =
          IF solid_subset.none
          THEN WholePipeline(dependencies)
          ELSE BuildSubPipeline(dependencies, solid_subset.names)
    /\ pc' = "create_typed_environment"
    /\ UNCHANGED <<args, context_vars, marshal_vars, ctx, stack, exc, log, engine_vars, outcome, err>>

\* evaluate_config_value: the raw environment is rejected unless the rest of
\* it is valid and its persistence mapping has one entry.
EvaluateConfigValue(valid, mapping) == valid /\ Len(mapping) = 1

\* (mutant) An entry operation that ignores the result of the evaluation.
AfterTypedEnvironmentUnchecked(valid) == "yield_context"

\* Where an entry operation goes after create_typed_environment.
AfterTypedEnvironment(valid) == IF valid THEN "yield_context" ELSE "raise"

CreateTypedEnvironment ==
    /\ pc = "create_typed_environment"
    /\ IF AfterTypedEnvironment(EvaluateConfigValue(env_valid, persistence)) = "raise"
       THEN Finish(Exc("PipelineConfigEvaluationError", "create_typed_environment", -1))
       ELSE /\ pc' = "yield_context"
            /\ UNCHANGED <<exc, outcome, err>>
    /\ UNCHANGED <<args, pipeline_to_execute, context_vars, marshal_vars, ctx, stack, log, engine_vars>>

\* ---------------------------------------------------------------------------
\* yield_context

\* Where the body of the scope starts, per entry operation.
BodyStart(o) ==
    CASE o = "create_execution_plan" -> "create_execution_plan_core"
      [] o \in PipelineOps -> "do_iterate_pipeline"
      [] o = "execute_plan" -> "execute_plan_core"
      [] OTHER -> "check_inputs_to_marshal"

\* Lines 330-345: the parameter checks, the call of context_fn and the entry
\* of with_maybe_gen(ec_or_gen).
YieldContextEnter ==
    /\ pc = "yield_context"
    /\ IF ~meta_given
       THEN /\ Finish(Exc("CheckError", "execution_metadata", -1))
            /\ UNCHANGED <<ctx, log>>
       ELSE \E shape \in Shapes :
              LET e == WithMaybeGenEnter(UserContext, shape) IN
              /\ log' = Append(log, SetupEntry(UserContext, shape))
              /\ IF e = NoExc
                 THEN /\ ctx' = shape
                      /\ pc' = "create_resources"
                      /\ UNCHANGED <<exc, outcome, err>>
                 ELSE /\ Finish(e)
                      /\ UNCHANGED ctx
    /\ UNCHANGED <<args, pipeline_to_execute, context_vars, marshal_vars, stack, engine_vars>>

\* Lines 377-389 of _create_resources: without declared resources the user
\* context's own resources pass through; with declared resources the user
\* context must not have returned any.
CreateResources ==
    /\ pc = "create_resources"
    /\ IF nres = 0
       THEN /\ pc' = "build_context"
            /\ UNCHANGED <<exc, outcome, err>>
       ELSE \E returned_resources \in BOOLEAN :
              IF returned_resources
              THEN Unwind(Exc("CheckError", "context_resources", -1))
              ELSE /\ pc' = "enter_resource"
                   /\ UNCHANGED <<exc, outcome, err>>
    /\ UNCHANGED <<args, pipeline_to_execute, context_vars, marshal_vars, ctx, stack, log, engine_vars>>

\* (mutant) A loop that stops after the first declared resource.
EnterResourceFirstOnly ==
    /\ pc = "enter_resource"
    /\ LET who == Len(stack) + 1 IN
       \E shape \in Shapes :
         LET e == WithMaybeGenEnter(who, shape) IN
         /\ log' = Append(log, SetupEntry(who, shape))
         /\ IF e = NoExc
            THEN /\ stack' = Append(stack, [who |-> who, shape |-> shape])
                 /\ pc' = "build_context"
                 /\ UNCHANGED <<exc, outcome, err>>
            ELSE /\ Unwind(e)
                 /\ UNCHANGED stack
    /\ UNCHANGED <<args, pipeline_to_execute, context_vars, marshal_vars, ctx, engine_vars>>

\* Lines 396-403: one turn of the loop over context_def.resources.keys():
\* get_resource_or_gen and stack.enter_context(with_maybe_gen(...)).
EnterResource ==
    /\ pc = "enter_resource"
    /\ LET who == Len(stack) + 1 IN
       \E shape \in Shapes :
         LET e == WithMaybeGenEnter(who, shape) IN
         /\ log' = Append(log, SetupEntry(who, shape))
         /\ IF e = NoExc
            THEN /\ stack' = Append(stack, [who |-> who, shape |-> shape])
                 /\ pc' = IF who = nres THEN "build_context" ELSE "enter_resource"
                 /\ UNCHANGED <<exc, outcome, err>>
            ELSE /\ Unwind(e)
                 /\ UNCHANGED stack
    /\ UNCHANGED <<args, pipeline_to_execute, context_vars, marshal_vars, ctx, engine_vars>>

\* (mutant) A get_tags that merges without comparing the keys.
GetTagsUnchecked(user, metadata) ==
    [raises |-> FALSE,
     tags |-> MergeDicts(MergeDicts([k \in {PipelineKey} |-> PipelineName], user), metadata)]

\* get_tags (lines 258-279) for the tags of the user context and of the
\* execution metadata: it raises, or returns the tags.
GetTags(user, metadata) ==
    LET base_tags == MergeDicts([k \in {PipelineKey} |-> PipelineName], user) IN
    IF DOMAIN metadata # {}
    THEN [raises |-> DOMAIN user \cap DOMAIN metadata # {},
          tags |-> MergeDicts(base_tags, metadata)]
    ELSE [raises |-> FALSE, tags |-> base_tags]

\* A user context with one tag, and execution metadata with another tag or
\* with a tag of the same key.
SomeUserTags == {[k \in {1} |-> "other"]}
SomeMetadataTags == {[k \in {1} |-> "other"], [k \in {MaxTagKeys} |-> "other"]}

\* (mutant) A selection that binds the file policy whatever the key is.
CreatePersistencePolicyAnyKey(mapping) ==
    IF mapping = <<>>
    THEN [raises |-> "IndexError", policy |-> "none"]
    ELSE [raises |-> "none", policy |-> "file"]

\* _create_persistence_policy (lines 317-325): the key of the first item of
\* the mapping selects the policy; it raises, or returns the policy.
CreatePersistencePolicy(mapping) ==
    IF mapping = <<>>
    THEN [raises |-> "IndexError", policy |-> "none"]
    ELSE IF mapping[1] = "file"
    THEN [raises |-> "none", policy |-> "file"]
    ELSE [raises |-> "CheckError", policy |-> "none"]

\* Lines 350-360: the loggers, then the arguments of RuntimeExecutionContext
\* in their order: get_tags (overlapping keys raise), get_event_callback,
\* _create_persistence_policy (a key other than "file" fails).  The user
\* context has one of the tags `users`, the execution metadata one of
\* `metadatas`.
BuildContextOf(users, metadatas) ==
    /\ pc = "build_context"
    /\ \E user \in users, metadata \in metadatas :
         LET selected == CreatePersistencePolicy(persistence) IN
         /\ user_tags' = user
         /\ meta_tags' = metadata
         /\ IF GetTags(user, metadata).raises
            THEN /\ Unwind(Exc("DagsterInvariantViolationError", "get_tags", -1))
                 /\ UNCHANGED <<tags, persistence_policy>>
            ELSE IF selected.raises # "none"
            THEN /\ Unwind(Exc(selected.raises, "persistence_key", -1))
                 /\ UNCHANGED <<tags, persistence_policy>>
            ELSE /\ tags' = GetTags(user, metadata).tags
                 /\ persistence_policy' = selected.policy
                 /\ pc' = BodyStart(op)
                 /\ UNCHANGED <<exc, outcome, err>>
    /\ UNCHANGED <<args, pipeline_to_execute, marshal_vars, ctx, stack, log, engine_vars>>

BuildContext == BuildContextOf(SomeUserTags, SomeMetadataTags)

BuildContextAnyTags == BuildContextOf(AnyTags, AnyTags)

\* The exit of the ExitStack of _create_resources (line 395): the callbacks
\* run one after the other, each the __exit__ of a with_maybe_gen, given the
\* exception in flight; the exception a callback raises is the one in flight
\* for the callbacks after it.  l is the log so far, td[who] what the teardown
\* code of `who` does when it is run.
RECURSIVE ExitStackExit(_, _, _, _)
ExitStackExit(stk, td, e, l) ==
    IF stk = <<>>
    THEN [exc |-> e, log |-> l]
    ELSE LET i == NextCallback(stk)
             who == stk[i].who
             r == WithMaybeGenExit(who, stk[i].shape, td[who], e)
         IN  ExitStackExit(RemoveAt(stk, i), td, r.exc,
                           IF r.ran THEN Append(l, TeardownEntry(who, td[who])) ELSE l)

\* What the teardown code of each acquired factory does on this exit.  Teardown
\* code runs only while no exception is in flight, so at most one teardown
\* ends otherwise than by returning: `bad`, in the way `how`.
TeardownChoice(bad, how) ==
    [who \in UserContext..Len(stack) |-> IF who = bad THEN how ELSE "returns"]

\* The acquired factories that have teardown code.
Generators ==
    {who \in UserContext..Len(stack) :
        HasTeardown(IF who = UserContext THEN ctx ELSE stack[who].shape)}

TeardownChoices ==
    {TeardownChoice(-1, "returns")} \cup
    (IF exc = NoExc
     THEN {TeardownChoice(bad, how) : bad \in Generators, how \in TeardownOutcomes \ {"returns"}}
     ELSE {})

\* The scope of yield_context is left (lines 344-360): the `with` of
\* _create_resources exits, then `with with_maybe_gen(ec_or_gen)` exits, which
\* drives the user context generator on, and the entry operation ends.
YieldContextExit ==
    /\ pc = "exit_scope"
    /\ \E td \in TeardownChoices :
         LET s == ExitStackExit(stack, td, exc, log)
             r == WithMaybeGenExit(UserContext, ctx, td[UserContext], s.exc) IN
         /\ log' = IF r.ran THEN Append(s.log, TeardownEntry(UserContext, td[UserContext]))
                   ELSE s.log
         /\ Finish(r.exc)
    /\ stack' = <<>>
    /\ UNCHANGED <<args, pipeline_to_execute, context_vars, marshal_vars, ctx, engine_vars>>

\* ---------------------------------------------------------------------------
\* The body of create_execution_plan

\* Line 245: create_execution_plan_core builds the plan, and the scope is left.
CreateExecutionPlanCore ==
    /\ pc = "create_execution_plan_core"
    /\ Unwind(NoExc)
    /\ UNCHANGED <<args, pipeline_to_execute, context_vars, marshal_vars, ctx, stack, log, engine_vars>>

\* ---------------------------------------------------------------------------
\* The plan driver: _do_iterate_pipeline and _process_step_results

\* (mutant) A driver that does not announce the run.
EmitStartMissing(l) == l

\* Line 423.
EmitStart(l) == Append(l, EventEntry("pipeline_start"))

PipelineStart ==
    /\ pc = "do_iterate_pipeline"
    /\ log' = EmitStart(log)
    /\ pc' = "create_plan"
    /\ UNCHANGED <<args, pipeline_to_execute, context_vars, marshal_vars, ctx, stack, exc, engine_vars, outcome, err>>

\* (mutant) A driver without the early return for a plan without steps.
PlanIsEmptyNever(n) == FALSE

\* Line 431: `if not steps`, for a plan of n steps.
PlanIsEmpty(n) == n = 0

\* Lines 425-446: the plan is built and its steps are written to the debug
\* log; an empty one ends the generator with pipeline_success, another one is
\* handed to the step engine.  The plans are those of the plan builder, whose
\* first step has no step inputs (line 446).
BuildPlan ==
    /\ pc = "create_plan"
    /\ \E n \in 0..MaxSteps :
         IF PlanIsEmpty(n)
         THEN /\ log' = log \o <<PlanEntry(n), EventEntry("pipeline_success")>>
              /\ Unwind(NoExc)
              /\ UNCHANGED steps_left
         ELSE /\ log' = Append(log, PlanEntry(n))
              /\ steps_left' = n
              /\ pc' = "engine"
              /\ UNCHANGED <<exc, outcome, err>>
    /\ UNCHANGED <<args, pipeline_to_execute, context_vars, marshal_vars, ctx, stack, step_results, emitted, pipeline_success, solid_results>>

\* The plan execute_plan is given.
ExecutePlanCore ==
    /\ pc = "execute_plan_core"
    /\ \E n \in 0..MaxSteps : steps_left' = n
    /\ pc' = "engine"
    /\ UNCHANGED <<args, pipeline_to_execute, context_vars, marshal_vars, ctx, stack, exc, log, step_results, emitted, pipeline_success,
                   solid_results, outcome, err>>

\* StepKind, as far as SolidExecutionResult tells the kinds apart (lines 128-138).
StepKinds == {"INPUT_EXPECTATION", "TRANSFORM", "OUTPUT_EXPECTATION"}

\* A StepResult: the step it is of (its key, its solid), its kind, its success
\* and, for a success, the name of the output and the value.  id is the
\* number of the result in the stream of the engine, and stands for the value
\* object as well.
StepResult(id, step, solid, kind, ok, output) ==
    [id |-> id, step |-> step, solid |-> solid, kind |-> kind, ok |-> ok,
     output |-> output, value |-> id]

\* The transform step of each solid: its key is the number of the solid, its
\* output the default output.
TransformSteps ==
    {[step |-> s, solid |-> s, kind |-> "TRANSFORM", output |-> "result"] : s \in 1..MaxSolids}

\* The steps of every kind of each solid.
SolidSteps ==
    {[step |-> s, solid |-> s, kind |-> k, output |-> "result"] :
        s \in 1..MaxSolids, k \in StepKinds}

\* step.step_input_dict and step.step_output_dict of a step of the plan given
\* to execute_externalized_plan.
StepInputNames == {"num"}
StepOutputNames == {"result", "extra"}

\* The steps of that plan with each of their outputs.
OutputSteps ==
    {[step |-> s, solid |-> s, kind |-> "TRANSFORM", output |-> o] :
        s \in 1..MaxSolids, o \in StepOutputNames}

\* The steps of every kind of the first solid, with each of its outputs.
OutputKindSteps ==
    {[step |-> 1, solid |-> 1, kind |-> k, output |-> o] :
        k \in StepKinds, o \in StepOutputNames}

\* What the step engine does with the outcome of one step: a failed step
\* raises under throw_on_user_error, and is a StepResult otherwise.
StepRaises(ok, throw) == ~ok /\ throw

\* execute_plan_core runs the next step of the plan, of any solid.  steps_left
\* counts the steps the engine reaches: a step it leaves out because a step it
\* depends on has failed produces no StepResult and is not counted.
\* The result is one of `steps`, each [step, solid, kind, output]: the key of
\* the step, the solid it belongs to, its kind and the output it produces.
EngineStepOf(steps) ==
    /\ pc = "engine"
    /\ steps_left > 0
    /\ \E s \in steps, ok \in BOOLEAN :
         /\ log' = Append(log, StepEntry(s.solid, ok))
         /\ IF StepRaises(ok, throw_on_user_error)
            THEN /\ Unwind(Exc("UserError", "step", s.solid))
                 /\ UNCHANGED <<steps_left, step_results>>
            ELSE /\ step_results' =
                        Append(step_results,
                               StepResult(Len(step_results) + 1, s.step, s.solid, s.kind, ok,
                                          s.output))
                 /\ steps_left' = steps_left - 1
                 /\ UNCHANGED <<pc, exc, outcome, err>>
    /\ UNCHANGED <<args, pipeline_to_execute, context_vars, marshal_vars, ctx, stack, emitted, pipeline_success, solid_results>>

\* A run of a pipeline whose solids have a transform step each.
EngineStep == EngineStepOf(TransformSteps)

\* A run of a pipeline whose solids have expectation steps as well.
EngineStepAnyKind == EngineStepOf(SolidSteps)

\* A run of a plan whose steps have two outputs.
EngineStepAnyOutput == EngineStepOf(OutputSteps)

\* The engine produces one result at most for an output of a step of a kind.
EngineStepOnceEach ==
    EngineStepOf({s \in OutputKindSteps :
                    \A i \in 1..Len(step_results) :
                       \/ step_results[i].kind # s.kind
                       \/ step_results[i].output # s.output})

\* Where the results of the engine go, per entry operation.
AfterEngine(o) ==
    CASE o \in PipelineOps -> "process_step_results"
      [] o = "execute_plan" -> "return"
      [] OTHER -> "marshal_outputs"

\* The stream of execute_plan_core ends: list(...) of execute_plan and
\* execute_externalized_plan is complete, the first loop of
\* _process_step_results (lines 502-503) has buffered every step result.
EngineDone ==
    /\ pc = "engine"
    /\ steps_left = 0
    /\ IF AfterEngine(op) = "return"
       THEN Unwind(NoExc)
       ELSE /\ pc' = AfterEngine(op)
            /\ UNCHANGED <<exc, outcome, err>>
    /\ UNCHANGED <<args, pipeline_to_execute, context_vars, marshal_vars, ctx, stack, log, engine_vars>>

\* step_results_by_solid_name[solid] (lines 501-503): the results of the
\* solid, in arrival order.
ResultsOf(results, solid) ==
    SelectSeq(results, LAMBDA r : r.solid = solid)

\* (mutant) A partition that files every result under TRANSFORM.
ByKindAllTransforms(results, kind) ==
    IF kind = "TRANSFORM" THEN results ELSE <<>>

\* step_results_by_kind[kind] of from_results (lines 153-154), read with the
\* default [] of the properties transforms, input_expectations and
\* output_expectations.
ByKind(results, kind) == SelectSeq(results, LAMBDA r : r.kind = kind)

\* SolidExecutionResult.from_results (lines 140-162), for a non-empty list of
\* results of one solid.
FromResults(results) ==
    [solid |-> results[1].solid,
     step_results_by_kind |-> [k \in StepKinds |-> ByKind(results, k)]]

\* (mutant) A success that looks at the transforms only.
ChainTransformsOnly(solid_result) == solid_result.step_results_by_kind["TRANSFORM"]

\* itertools.chain(input_expectations, output_expectations, transforms)
Chain(solid_result) ==
    solid_result.step_results_by_kind["INPUT_EXPECTATION"]
    \o solid_result.step_results_by_kind["OUTPUT_EXPECTATION"]
    \o solid_result.step_results_by_kind["TRANSFORM"]

\* SolidExecutionResult.success (lines 164-174)
SolidSuccess(results) == \A i \in 1..Len(results) : results[i].ok

\* What a property or method of SolidExecutionResult returns for None; the
\* values of the results are 1, 2, ...
None == 0

\* SolidExecutionResult.transformed_values (lines 176-186): None, or the dict
\* of the comprehension over the transforms, where a later result replaces an
\* earlier one of the same output name.
TransformedValues(solid_result) ==
    LET transforms == solid_result.step_results_by_kind["TRANSFORM"] IN
    IF SolidSuccess(Chain(solid_result)) /\ transforms # <<>>
    THEN [defined |-> TRUE,
          values |->
             [name \in {transforms[i].output : i \in 1..Len(transforms)} |->
                 LET last == CHOOSE i \in 1..Len(transforms) :
                                /\ transforms[i].output = name
                                /\ \A j \in (i + 1)..Len(transforms) :
                                      transforms[j].output # name
                 IN  transforms[last].value]]
    ELSE [defined |-> FALSE, values |-> <<>>]

\* SolidExecutionResult.transformed_value (lines 188-211) for a solid whose
\* definition has the outputs `declared`: it raises, or returns a value or
\* None.
TransformedValue(solid_result, output_name, declared) ==
    LET transforms == solid_result.step_results_by_kind["TRANSFORM"]
        found == {i \in 1..Len(transforms) : transforms[i].output = output_name}
    IN  IF output_name \notin declared
        THEN [raises |-> "DagsterInvariantViolationError", value |-> None]
        ELSE IF SolidSuccess(Chain(solid_result))
        THEN IF found # {}
             THEN [raises |-> "none",
                   value |-> transforms[CHOOSE i \in found : \A j \in found : i <= j].value]
             ELSE [raises |-> "DagsterInvariantViolationError", value |-> None]
        ELSE [raises |-> "none", value |-> None]

\* The solids after `after`, in topological order, that have step results
\* (lines 505-506).
SolidsToEmit(results, after) ==
    {s \in (after + 1)..MaxSolids : Len(ResultsOf(results, s)) > 0}

Min(S) == CHOOSE x \in S : \A y \in S : x <= y

\* (mutant) A loop that starts at the last solid of the order.
NextSolidFromEnd(results, after) ==
    LET S == SolidsToEmit(results, after) IN CHOOSE x \in S : \A y \in S : y <= x

\* The solid of the next SolidExecutionResult: the loop over
\* solids_in_topological_order (line 505) goes on after the solid `after`.
NextSolid(results, after) == Min(SolidsToEmit(results, after))

\* (mutant) An iterator that leaves the scope of the context after a result.
AfterYieldLeavesScope(o, here) ==
    IF o = "execute_pipeline_iterator" THEN "exit_scope" ELSE here

\* Where the run is after `yield solid_result` (lines 455, 494): the generator
\* of execute_pipeline_iterator is suspended at the yield, inside the `with`.
AfterYield(o, here) ==
    IF o = "execute_pipeline_iterator" THEN "suspended" ELSE here

\* Lines 505-509 and 450-455: the next SolidExecutionResult is built and
\* yielded through _do_iterate_pipeline; execute_pipeline_iterator yields it
\* on to its consumer and stays suspended there, list(...) of execute_pipeline
\* takes it and goes on.
YieldSolidResult ==
    /\ pc = "process_step_results"
    /\ SolidsToEmit(step_results, emitted) # {}
    /\ LET s == NextSolid(step_results, emitted)
           solid_result == FromResults(ResultsOf(step_results, s))
           ok == SolidSuccess(Chain(solid_result)) IN
       /\ pipeline_success' = (pipeline_success /\ ok)
       /\ solid_results' = Append(solid_results, solid_result)
       /\ log' = Append(log, ResultEntry(s, ok))
       /\ emitted' = s
    /\ pc' = AfterYield(op, pc)
    /\ UNCHANGED <<args, pipeline_to_execute, context_vars, marshal_vars, ctx, stack, exc, steps_left, step_results, outcome, err>>

\* (mutant) A driver that reports success whatever the tracker says.
TerminalEventAlwaysSuccess(success) == "pipeline_success"

\* Lines 457-460.
TerminalEvent(success) == IF success THEN "pipeline_success" ELSE "pipeline_failure"

\* No solid is left: the terminal event is emitted, the generator ends and the
\* scope of yield_context is left normally.
EmitTerminal ==
    /\ pc = "process_step_results"
    /\ SolidsToEmit(step_results, emitted) = {}
    /\ log' = Append(log, EventEntry(TerminalEvent(pipeline_success)))
    /\ Unwind(NoExc)
    /\ UNCHANGED <<args, pipeline_to_execute, context_vars, marshal_vars, ctx, stack, engine_vars>>

\* ---------------------------------------------------------------------------
\* The consumer of execute_pipeline_iterator

\* next(): the first one starts the generator function, a later one resumes it
\* after `yield solid_result` (line 494).
ConsumerNext ==
    /\ pc \in {"gen_created", "suspended"}
    /\ pc' = IF pc = "gen_created" THEN "get_subset_pipeline" ELSE "process_step_results"
    /\ UNCHANGED <<args, pipeline_to_execute, context_vars, marshal_vars, ctx, stack, exc, log, engine_vars, outcome, err>>

\* close() (or the collection of the abandoned generator): GeneratorExit is
\* raised at `yield solid_result`, inside the scope of yield_context.
ConsumerClose ==
    /\ pc = "suspended"
    /\ Unwind(Exc("GeneratorExit", "consumer", -1))
    /\ UNCHANGED <<args, pipeline_to_execute, context_vars, marshal_vars, ctx, stack, log, engine_vars>>

\* ---------------------------------------------------------------------------
\* The body of execute_externalized_plan (lines 560-580)

\* inputs_to_marshal ({step_key: {input_name: path}}) and outputs_to_marshal
\* ({step_key: [{"output": name, "path": path}]}) are sequences of requests
\* [step, name] in the order the loops over .items() and over the inner dict or
\* list take them, the requests of one step key next to each other.  The path of
\* a request is its number in the sequence.  No two requests of
\* inputs_to_marshal are equal (the names are the keys of a dict); a list of
\* outputs_to_marshal can name an output twice.

\* execution_plan.has_step(step_key), for the plan given to
\* execute_externalized_plan: it has the transform step of each solid.
PlanHasStep(step) == step \in 1..MaxSolids

\* A step key that is not in the plan.
UnknownStep == MaxSolids + 1

Grouped(requests) ==
    \A i, k \in 1..Len(requests) :
        (i < k /\ requests[i].step = requests[k].step)
        => \A j \in i..k : requests[j].step = requests[i].step

RequestsOver(steps, names) ==
    {requests \in UNION {[1..n -> [step : steps, name : names]] : n \in 0..MaxMarshal} :
        Grouped(requests)}

\* Any inputs_to_marshal and outputs_to_marshal, right or wrong.
AnyInputsToMarshal ==
    {requests \in RequestsOver(1..UnknownStep, StepInputNames \cup {"missing"}) :
        \A i, j \in 1..Len(requests) : i # j => requests[i] # requests[j]}
AnyOutputsToMarshal == RequestsOver(1..UnknownStep, StepOutputNames \cup {"missing"})

\* Those that pass _check_outputs_to_marshal, for the first and the last step
\* of the plan.
RightOutputsToMarshal == RequestsOver({1, MaxSolids}, StepOutputNames)

\* One request: right, of a step that is not in the plan, of a name the step
\* does not have.
SomeInputsToMarshal ==
    {<<[step |-> 1, name |-> "num"]>>, <<[step |-> UnknownStep, name |-> "num"]>>,
     <<[step |-> 1, name |-> "missing"]>>}
SomeOutputsToMarshal ==
    {<<[step |-> 1, name |-> "result"]>>, <<[step |-> UnknownStep, name |-> "result"]>>,
     <<[step |-> 1, name |-> "missing"]>>}

\* Lines 610-621, for one request: the step key, then the input name.
InputViolation(request) ==
    IF ~PlanHasStep(request.step)
    THEN MarshalExc("DagsterExecutionStepNotFoundError", "inputs_to_marshal",
                    request.step, "none", "none")
    ELSE IF request.name \notin StepInputNames
    THEN MarshalExc("DagsterUnmarshalInputNotFoundError", "inputs_to_marshal",
                    request.step, request.name, "none")
    ELSE NoExc

\* (mutant) A check of the step keys only.
OutputViolationStepOnly(request) ==
    IF ~PlanHasStep(request.step)
    THEN MarshalExc("DagsterExecutionStepNotFoundError", "outputs_to_marshal",
                    request.step, "none", "none")
    ELSE NoExc

\* Lines 586-604, for one request: the step key, then the output name.
OutputViolation(request) ==
    IF ~PlanHasStep(request.step)
    THEN MarshalExc("DagsterExecutionStepNotFoundError", "outputs_to_marshal",
                    request.step, "none", "none")
    ELSE IF request.name \notin StepOutputNames
    THEN MarshalExc("DagsterMarshalOutputNotFoundError", "outputs_to_marshal",
                    request.step, request.name, "none")
    ELSE NoExc

\* The loops of the two checks raise at the first request that is wrong.
\* violations[i] is what is wrong with the i-th request (NoExc: nothing).
FirstViolation(violations) ==
    LET wrong == {i \in 1..Len(violations) : violations[i] # NoExc}
    IN  IF wrong = {} THEN NoExc ELSE violations[Min(wrong)]

InputViolations(requests) == [i \in 1..Len(requests) |-> InputViolation(requests[i])]
OutputViolations(requests) == [i \in 1..Len(requests) |-> OutputViolation(requests[i])]

\* _check_inputs_to_marshal (line 560), called with one of `requests`.
CheckInputsToMarshalOf(requests) ==
    /\ pc = "check_inputs_to_marshal"
    /\ \E given \in requests :
         /\ inputs_to_marshal' = given
         /\ IF FirstViolation(InputViolations(given)) # NoExc
            THEN Unwind(FirstViolation(InputViolations(given)))
            ELSE /\ pc' = "check_outputs_to_marshal"
                 /\ UNCHANGED <<exc, outcome, err>>
    /\ UNCHANGED <<args, pipeline_to_execute, context_vars, outputs_to_marshal, ctx, stack, log, engine_vars>>

CheckInputsToMarshal == CheckInputsToMarshalOf(SomeInputsToMarshal)

CheckAnyInputsToMarshal == CheckInputsToMarshalOf(AnyInputsToMarshal)

\* _check_outputs_to_marshal (line 562), called with one of `requests`.
CheckOutputsToMarshalOf(requests) ==
    /\ pc = "check_outputs_to_marshal"
    /\ \E given \in requests :
         /\ outputs_to_marshal' = given
         /\ IF FirstViolation(OutputViolations(given)) # NoExc
            THEN Unwind(FirstViolation(OutputViolations(given)))
            ELSE /\ pc' = "unmarshal_inputs"
                 /\ UNCHANGED <<exc, outcome, err>>
    /\ UNCHANGED <<args, pipeline_to_execute, context_vars, inputs_to_marshal, ctx, stack, log, engine_vars>>

CheckOutputsToMarshal == CheckOutputsToMarshalOf(SomeOutputsToMarshal)

CheckAnyOutputsToMarshal == CheckOutputsToMarshalOf(AnyOutputsToMarshal)

\* What read_value and write_value raise when they raise.
PolicyErrors == {"IOError"}

\* (mutant) An unmarshalling that lets the exception of read_value through.
UnmarshalErrorUnwrapped(step, name, cause) == Exc(cause, "read_value", step)

\* Lines 672-684: the exception of read_value is wrapped.
UnmarshalError(step, name, cause) ==
    MarshalExc("DagsterUnmarshalInputError", "read_value", step, name, cause)

\* The first n calls of read_value of _unmarshal_inputs, one per request in
\* order, the n-th raising `raised`.
ReadValues(requests, n, raised) ==
    [i \in 1..n |-> PolicyEntry("read_value", requests[i].step, requests[i].name, i, i,
                                IF i = n THEN raised ELSE "none")]

\* _unmarshal_inputs and the rebuilt plan (lines 564-572), which has one of
\* `sizes` steps.
UnmarshalInputsOf(sizes) ==
    /\ pc = "unmarshal_inputs"
    /\ \/ \E n \in sizes :
            /\ log' = log \o ReadValues(inputs_to_marshal, Len(inputs_to_marshal), "none")
            /\ steps_left' = n
            /\ pc' = "engine"
            /\ UNCHANGED <<exc, outcome, err>>
       \/ \E failing \in 1..Len(inputs_to_marshal), cause \in PolicyErrors :
            /\ log' = log \o ReadValues(inputs_to_marshal, failing, cause)
            /\ Unwind(UnmarshalError(inputs_to_marshal[failing].step,
                                     inputs_to_marshal[failing].name, cause))
            /\ UNCHANGED steps_left
    /\ UNCHANGED <<args, pipeline_to_execute, context_vars, marshal_vars, ctx, stack, step_results, emitted, pipeline_success,
                   solid_results>>

UnmarshalInputs == UnmarshalInputsOf(0..MaxSteps)

\* A rebuilt plan of one step at most.
UnmarshalInputsShortPlan == UnmarshalInputsOf(0..1)

\* (mutant) A marshalling that does not look at the success of the result.
RequestsOfAnyResult(result, requests) ==
    SelectSeq([i \in 1..Len(requests) |-> i],
              LAMBDA i : requests[i].step = result.step /\ requests[i].name = result.output)

\* Lines 625-633: the requests of outputs_to_marshal (their numbers) that one
\* step result is written for.
RequestsOf(result, requests) ==
    IF result.ok
    THEN SelectSeq([i \in 1..Len(requests) |-> i],
                   LAMBDA i : requests[i].step = result.step
                              /\ requests[i].name = result.output)
    ELSE <<>>

\* The calls of write_value of _marshal_outputs, in order: for each result in
\* turn, for each request of its step key and output.
RECURSIVE WriteValues(_, _)
WriteValues(results, requests) ==
    IF results = <<>>
    THEN <<>>
    ELSE LET result == Head(results)
             matching == RequestsOf(result, requests)
         IN  [j \in 1..Len(matching) |->
                 [step |-> result.step, name |-> result.output, path |-> matching[j],
                  value |-> result.value]]
             \o WriteValues(Tail(results), requests)

\* Lines 636-652: the exception of write_value is wrapped.
MarshalError(step, name, cause) ==
    MarshalExc("DagsterMarshalOutputError", "write_value", step, name, cause)

\* (mutant) A marshalling that goes on after a write_value that raised.
WriteEntriesToTheEnd(writes, n, raised) ==
    [i \in 1..Len(writes) |->
        PolicyEntry("write_value", writes[i].step, writes[i].name,
                    writes[i].path, writes[i].value,
                    IF i = n THEN raised ELSE "none")]

\* The first n of the calls `writes`, the n-th raising `raised`.
WriteEntries(writes, n, raised) ==
    [i \in 1..n |-> PolicyEntry("write_value", writes[i].step, writes[i].name,
                                writes[i].path, writes[i].value,
                                IF i = n THEN raised ELSE "none")]

\* _marshal_outputs (line 578), and the return.
MarshalOutputs ==
    /\ pc = "marshal_outputs"
    /\ LET writes == WriteValues(step_results, outputs_to_marshal) IN
       \/ /\ log' = log \o WriteEntries(writes, Len(writes), "none")
          /\ Unwind(NoExc)
       \/ \E failing \in 1..Len(writes), cause \in PolicyErrors :
            /\ log' = log \o WriteEntries(writes, failing, cause)
            /\ Unwind(MarshalError(writes[failing].step, writes[failing].name, cause))
    /\ UNCHANGED <<args, pipeline_to_execute, context_vars, marshal_vars, ctx, stack, engine_vars>>

\* ---------------------------------------------------------------------------

Next ==
    \/ GetSubsetPipeline
    \/ CreateTypedEnvironment
    \/ YieldContextEnter
    \/ CreateResources
    \/ EnterResource
    \/ BuildContext
    \/ YieldContextExit
    \/ CreateExecutionPlanCore
    \/ PipelineStart
    \/ BuildPlan
    \/ ExecutePlanCore
    \/ EngineStep
    \/ EngineDone
    \/ YieldSolidResult
    \/ EmitTerminal
    \/ ConsumerNext
    \/ ConsumerClose
    \/ CheckInputsToMarshal
    \/ CheckOutputsToMarshal
    \/ UnmarshalInputs
    \/ MarshalOutputs

Spec == Init /\ [][Next]_vars

\* ---------------------------------------------------------------------------
\* The context, for any tags

\* A call of create_execution_plan, in a context without resources, at the
\* construction of the RuntimeExecutionContext (line 352).
InitTags ==
    /\ op = "create_execution_plan"
    /\ throw_on_user_error = TRUE
    /\ env_valid = TRUE
    /\ nres = 0
    /\ dependencies = NoDependencies
    /\ solid_subset = NoSubset
    /\ pipeline_to_execute = WholePipeline(NoDependencies)
    /\ persistence \in SinglePersistence
    /\ meta_given = TRUE
    /\ pc = "build_context"
    /\ ctx = "direct"
    /\ stack = <<>>
    /\ exc = NoExc
    /\ log = <<SetupEntry(UserContext, "direct")>>
    /\ steps_left = 0
    /\ step_results = <<>>
    /\ emitted = 0
    /\ pipeline_success = TRUE
    /\ solid_results = <<>>
    /\ inputs_to_marshal = <<>>
    /\ outputs_to_marshal = <<>>
    /\ user_tags = NoTags
    /\ meta_tags = NoTags
    /\ tags = NoTags
    /\ persistence_policy = "none"
    /\ outcome = "running"
    /\ err = NoExc

NextTags ==
    \/ BuildContextAnyTags
    \/ CreateExecutionPlanCore
    \/ YieldContextExit

SpecTags == InitTags /\ [][NextTags]_vars

\* ---------------------------------------------------------------------------
\* The externalized runner, given any inputs_to_marshal and outputs_to_marshal

\* A call of execute_externalized_plan in a context without resources, at the
\* first statement of the body of `with yield_context(...)` (line 560).
InitUnmarshal ==
    /\ op = "execute_externalized_plan"
    /\ throw_on_user_error \in BOOLEAN
    /\ env_valid = TRUE
    /\ nres = 0
    /\ dependencies = NoDependencies
    /\ solid_subset = NoSubset
    /\ pipeline_to_execute = WholePipeline(NoDependencies)
    /\ persistence = <<"file">>
    /\ meta_given = TRUE
    /\ pc = "check_inputs_to_marshal"
    /\ ctx = "direct"
    /\ stack = <<>>
    /\ exc = NoExc
    /\ log = <<SetupEntry(UserContext, "direct")>>
    /\ steps_left = 0
    /\ step_results = <<>>
    /\ emitted = 0
    /\ pipeline_success = TRUE
    /\ solid_results = <<>>
    /\ inputs_to_marshal = <<>>
    /\ outputs_to_marshal = <<>>
    /\ user_tags = NoTags
    /\ meta_tags = NoTags
    /\ tags = [k \in {PipelineKey} |-> PipelineName]
    /\ persistence_policy = "file"
    /\ outcome = "running"
    /\ err = NoExc

NextUnmarshal ==
    \/ CheckAnyInputsToMarshal
    \/ CheckAnyOutputsToMarshal
    \/ UnmarshalInputsShortPlan
    \/ EngineStep
    \/ EngineDone
    \/ MarshalOutputs
    \/ YieldContextExit

SpecUnmarshal == InitUnmarshal /\ [][NextUnmarshal]_vars

\* The same call at execute_plan_core (line 574), for any outputs_to_marshal
\* that passed the check and a plan of up to MaxSteps steps.
InitMarshal ==
    /\ op = "execute_externalized_plan"
    /\ throw_on_user_error = FALSE
    /\ env_valid = TRUE
    /\ nres = 0
    /\ dependencies = NoDependencies
    /\ solid_subset = NoSubset
    /\ pipeline_to_execute = WholePipeline(NoDependencies)
    /\ persistence = <<"file">>
    /\ meta_given = TRUE
    /\ pc = "engine"
    /\ ctx = "direct"
    /\ stack = <<>>
    /\ exc = NoExc
    /\ log = <<SetupEntry(UserContext, "direct")>>
    /\ steps_left \in 0..MaxSteps
    /\ step_results = <<>>
    /\ emitted = 0
    /\ pipeline_success = TRUE
    /\ solid_results = <<>>
    /\ inputs_to_marshal = <<>>
    /\ outputs_to_marshal \in RightOutputsToMarshal
    /\ user_tags = NoTags
    /\ meta_tags = NoTags
    /\ tags = [k \in {PipelineKey} |-> PipelineName]
    /\ persistence_policy = "file"
    /\ outcome = "running"
    /\ err = NoExc

NextMarshal ==
    \/ EngineStepAnyOutput
    \/ EngineDone
    \/ MarshalOutputs
    \/ YieldContextExit

SpecMarshal == InitMarshal /\ [][NextMarshal]_vars

\* ---------------------------------------------------------------------------
\* The aggregator, fed with any stream of step results

\* A run of execute_pipeline or execute_pipeline_iterator, in a context without
\* resources, at the call of _process_step_results (line 450) for a plan of
\* 1..MaxStream steps of the three kinds, with throw_on_user_error as it is by
\* default: the stream is of the results of successful steps.
InitAggregate ==
    /\ op \in PipelineOps
    /\ throw_on_user_error = TRUE
    /\ env_valid = TRUE
    /\ nres = 0
    /\ dependencies = NoDependencies
    /\ solid_subset = NoSubset
    /\ pipeline_to_execute = WholePipeline(NoDependencies)
    /\ persistence = <<"file">>
    /\ meta_given = TRUE
    /\ pc = "engine"
    /\ ctx = "direct"
    /\ stack = <<>>
    /\ exc = NoExc
    /\ steps_left \in 1..MaxStream
    /\ log = <<SetupEntry(UserContext, "direct"), EventEntry("pipeline_start"),
               PlanEntry(steps_left)>>
    /\ step_results = <<>>
    /\ emitted = 0
    /\ pipeline_success = TRUE
    /\ solid_results = <<>>
    /\ inputs_to_marshal = <<>>
    /\ outputs_to_marshal = <<>>
    /\ user_tags = NoTags
    /\ meta_tags = NoTags
    /\ tags = [k \in {PipelineKey} |-> PipelineName]
    /\ persistence_policy = "file"
    /\ outcome = "running"
    /\ err = NoExc

NextAggregate ==
    \/ EngineStepAnyKind
    \/ EngineDone
    \/ YieldSolidResult
    \/ EmitTerminal
    \/ ConsumerNext
    \/ ConsumerClose
    \/ YieldContextExit

SpecAggregate == InitAggregate /\ [][NextAggregate]_vars

\* ---------------------------------------------------------------------------
\* The SolidExecutionResult of a solid with results of every kind

\* A run of execute_pipeline over one solid, in a context without resources,
\* at the call of _process_step_results (line 450) for a plan of 1..MaxStream
\* steps, with throw_on_user_error off: a failed step is a StepResult.
InitSolidResult ==
    /\ op = "execute_pipeline"
    /\ throw_on_user_error = FALSE
    /\ env_valid = TRUE
    /\ nres = 0
    /\ dependencies = NoDependencies
    /\ solid_subset = NoSubset
    /\ pipeline_to_execute = WholePipeline(NoDependencies)
    /\ persistence = <<"file">>
    /\ meta_given = TRUE
    /\ pc = "engine"
    /\ ctx = "direct"
    /\ stack = <<>>
    /\ exc = NoExc
    /\ steps_left \in 1..MaxStream
    /\ log = <<SetupEntry(UserContext, "direct"), EventEntry("pipeline_start"),
               PlanEntry(steps_left)>>
    /\ step_results = <<>>
    /\ emitted = 0
    /\ pipeline_success = TRUE
    /\ solid_results = <<>>
    /\ inputs_to_marshal = <<>>
    /\ outputs_to_marshal = <<>>
    /\ user_tags = NoTags
    /\ meta_tags = NoTags
    /\ tags = [k \in {PipelineKey} |-> PipelineName]
    /\ persistence_policy = "file"
    /\ outcome = "running"
    /\ err = NoExc

NextSolidResult ==
    \/ EngineStepOnceEach
    \/ EngineDone
    \/ YieldSolidResult
    \/ EmitTerminal
    \/ YieldContextExit

SpecSolidResult == InitSolidResult /\ [][NextSolidResult]_vars

\* ---------------------------------------------------------------------------
\* The subset builder, for any dependency structure and any list of names

\* A call of execute_pipeline with a solid_subset.
InitSubset ==
    /\ op = "execute_pipeline"
    /\ throw_on_user_error = TRUE
    /\ env_valid \in BOOLEAN
    /\ nres = 0
    /\ persistence = <<"file">>
    /\ dependencies \in AnyDependencies
    /\ solid_subset \in AnySubset
    /\ pipeline_to_execute = NoPipeline
    /\ meta_given = TRUE
    /\ pc = FirstPc(op)
    /\ ctx = "none"
    /\ stack = <<>>
    /\ exc = NoExc
    /\ log = <<>>
    /\ steps_left = 0
    /\ step_results = <<>>
    /\ emitted = 0
    /\ pipeline_success = TRUE
    /\ solid_results = <<>>
    /\ inputs_to_marshal = <<>>
    /\ outputs_to_marshal = <<>>
    /\ user_tags = NoTags
    /\ meta_tags = NoTags
    /\ tags = NoTags
    /\ persistence_policy = "none"
    /\ outcome = "running"
    /\ err = NoExc

\* The subset is built and the environment evaluated; the run goes on from
\* there as in Spec.
NextSubset ==
    \/ GetSubsetPipeline
    \/ CreateTypedEnvironment

SpecSubset == InitSubset /\ [][NextSubset]_vars

\* ---------------------------------------------------------------------------
\* Reading the log

Reverse(seq) == [i \in 1..Len(seq) |-> seq[Len(seq) + 1 - i]]

Names(entries) == [i \in 1..Len(entries) |-> entries[i].who]

\* The factories invoked so far, in order.
Setups == SelectSeq(log, LAMBDA e : e.type = "setup")

\* Those that were acquired (with_maybe_gen reached its yield) and have
\* teardown code, in acquisition order: the user context first.
AcquiredWithTeardown ==
    SelectSeq(Setups, LAMBDA e : WithMaybeGenEnter(e.who, e.shape) = NoExc
                                   /\ HasTeardown(e.shape))

\* The factories whose teardown code has run, in the order it ran.
Teardowns == Names(SelectSeq(log, LAMBDA e : e.type = "teardown"))

\* The teardown sequence the resource lifecycle promises.
ReverseAcquisition == Reverse(Names(AcquiredWithTeardown))

IsTerminal(e) == e.type \in {"pipeline_success", "pipeline_failure"}

TerminalAt == {i \in 1..Len(log) : IsTerminal(log[i])}
StartAt == {i \in 1..Len(log) : log[i].type = "pipeline_start"}
StepAt == {i \in 1..Len(log) : log[i].type = "step"}
ResultAt == {i \in 1..Len(log) : log[i].type = "result"}

Done == pc = "done"

\* ---------------------------------------------------------------------------
\* The resource lifecycle

\* C1: when a run completes without error, the teardown code of the acquired
\* resources has run in the order rN..r1, and the teardown code of the user
\* context factory after all of them.
C1_TeardownReverseOnSuccess ==
    (Done /\ outcome \in {"returned", "exhausted"}) => Teardowns = ReverseAcquisition

C1_Witness ==
    /\ Done
    /\ outcome = "returned"
    /\ op = "execute_pipeline"
    /\ StepAt # {}
    /\ Teardowns = <<2, 1, UserContext>>

\* C2: when a solid raises under throw_on_user_error in a context with
\* generator-shaped resources r1, r2 and a generator-shaped user context
\* factory, the recorded teardown sequence is exactly [r2, r1, user_context].
C2_TeardownOnBodyError ==
    (/\ Done
     /\ op \in PipelineOps
     /\ err.kind = "UserError"
     /\ Names(AcquiredWithTeardown) = <<UserContext, 1, 2>>)
    => Teardowns = <<2, 1, UserContext>>

\* C3: when the consumer of execute_pipeline_iterator closes the sequence
\* after some but not all results, every acquired resource's teardown code
\* runs in reverse acquisition order, followed by the user context's.
C3_TeardownOnAbandon ==
    (/\ Done
     /\ outcome = "closed"
     /\ SolidsToEmit(step_results, emitted) # {})
    => Teardowns = ReverseAcquisition

\* The teardowns that ended in an exception.
RaisingTeardownAt ==
    {i \in 1..Len(log) : log[i].type = "teardown" /\ log[i].shape \in {"yields", "raises"}}

\* C4: when the teardown code of one resource raises during scope exit, the
\* teardown code of every resource acquired before it and of the user context
\* still runs, and the error the caller gets is the first teardown error.
C4_TeardownAfterTeardownError ==
    (Done /\ err.kind = "UserTeardownError" /\ err.who # UserContext)
    => /\ \A i \in 1..Len(AcquiredWithTeardown) :
            AcquiredWithTeardown[i].who < err.who
            => \E j \in 1..Len(Teardowns) : Teardowns[j] = AcquiredWithTeardown[i].who
       /\ err.who = log[Min(RaisingTeardownAt)].who

\* C5: when context setup fails after something was acquired (a resource
\* factory fails, the tag merge fails, the persistence key is rejected), the
\* teardown code of everything acquired runs, in reverse acquisition order,
\* before the error reaches the caller.
C5_TeardownOnSetupError ==
    (/\ Done
     /\ outcome = "raised"
     /\ \/ err.site \in {"get_tags", "persistence_key"}
        \/ err.site \in {"factory", "zero_items"} /\ err.who # UserContext)
    => Teardowns = ReverseAcquisition

\* ---------------------------------------------------------------------------
\* The shape of a factory

\* The factories found to yield nothing, and to yield a second item.
YieldsNone == {e.who : e \in {log[i] : i \in {j \in 1..Len(log) :
                  log[j].type = "setup" /\ log[j].shape = "gen0"}}}
YieldsMore == {e.who : e \in {log[i] : i \in {j \in 1..Len(log) :
                  log[j].type = "teardown" /\ log[j].shape = "yields"}}}

\* C6, as claimed: a factory that yields zero items, or two or more, makes the
\* run fail with an invariant violation before any step is executed.
C6_ShapeFailsBeforeAnyStep ==
    (Done /\ (YieldsNone # {} \/ YieldsMore # {}))
    => /\ outcome = "raised"
       /\ err.kind = "CheckError"
       /\ err.site \in {"zero_items", "more_than_one"}
       /\ StepAt = {}

\* C6, amended: a factory that yields zero items makes the run fail with an
\* invariant violation before any step is executed; the second item of a
\* factory is found only on scope exit, when its teardown code has run and
\* the body of the scope (the steps, the terminal event) has finished.
C6_ShapeEnforcement ==
    /\ (Done /\ YieldsNone # {}) =>
          /\ outcome = "raised"
          /\ \E who \in YieldsNone : err = Exc("CheckError", "zero_items", who)
          /\ StepAt = {}
    /\ err.site = "more_than_one" =>
          /\ err.who \in YieldsMore
          /\ op \in PipelineOps => TerminalAt # {}
          /\ op \in {"execute_plan", "execute_externalized_plan"} => steps_left = 0

C6_Witness ==
    /\ Done
    /\ err.site = "more_than_one"
    /\ err.who = 1
    /\ StepAt # {}

\* ---------------------------------------------------------------------------
\* Configuration errors

\* C7: in every entry operation, a raw environment that fails config
\* evaluation ends the operation with PipelineConfigEvaluationError before
\* the user context factory or any resource factory is invoked: nothing is
\* acquired and no event is emitted.
C7_ConfigErrorBeforeContext ==
    ~env_valid =>
        /\ log = <<>>
        /\ ctx = "none"
        /\ stack = <<>>
        /\ Done => outcome = "raised" /\ err.kind = "PipelineConfigEvaluationError"

C7_Witness ==
    /\ Done
    /\ ~env_valid
    /\ op = "execute_pipeline_iterator"
    /\ nres = MaxResources
    /\ err.kind = "PipelineConfigEvaluationError"

\* ---------------------------------------------------------------------------
\* Pipeline events

\* C8: a run of execute_pipeline or execute_pipeline_iterator that emits
\* pipeline_start also emits exactly one of pipeline_success and
\* pipeline_failure before it ends.
C8_EventsFrameTheRun ==
    (Done /\ op \in PipelineOps /\ StartAt # {}) => Cardinality(TerminalAt) = 1

\* C9: when the step stream ends without raising, exactly one terminal event
\* is emitted, after the last SolidExecutionResult: pipeline_success if every
\* yielded SolidExecutionResult succeeded, pipeline_failure otherwise.
C9_TerminalEvent ==
    /\ Cardinality(TerminalAt) <= 1
    /\ \A t \in TerminalAt :
          /\ \A i \in ResultAt : i < t
          /\ log[t].type = "pipeline_success" <=> \A i \in ResultAt : log[i].ok
    /\ (/\ Done
        /\ op \in PipelineOps
        /\ StartAt # {}
        /\ err.kind # "UserError"
        /\ outcome # "closed")
       => TerminalAt # {}

C9_Witness ==
    /\ Done
    /\ Cardinality(ResultAt) = 2
    /\ \E i \in ResultAt : ~log[i].ok
    /\ \E i \in ResultAt : log[i].ok
    /\ \E t \in TerminalAt : log[t].type = "pipeline_failure"

\* C10: within a run, pipeline_start is emitted before the step engine
\* executes any step, and the terminal event only after it has produced its
\* last step result.
C10_EventsAroundSteps ==
    op \in PipelineOps =>
        \A i \in StepAt :
            /\ \E j \in StartAt : j < i
            /\ \A t \in TerminalAt : i < t

C10_Witness ==
    /\ Done
    /\ op \in PipelineOps
    /\ Cardinality(StepAt) = MaxSteps
    /\ TerminalAt # {}

\* ---------------------------------------------------------------------------
\* The plan driver

\* The plan _do_iterate_pipeline has built has no steps.
EmptyPlan == \E i \in 1..Len(log) : log[i].type = "plan" /\ log[i].who = 0

\* The pipeline events emitted so far, in order.
Events ==
    LET ev == SelectSeq(log, LAMBDA e : e.type \in {"pipeline_start", "pipeline_success",
                                                     "pipeline_failure"})
    IN  [i \in 1..Len(ev) |-> ev[i].type]

\* C11: a run whose plan has no steps emits pipeline_start and then
\* pipeline_success, no pipeline_failure, never calls the step engine and
\* yields no SolidExecutionResult.
C11_EmptyPlan ==
    (op \in PipelineOps /\ EmptyPlan) =>
        /\ Events = <<"pipeline_start", "pipeline_success">>
        /\ pc \notin {"engine", "process_step_results", "suspended"}
        /\ StepAt = {}
        /\ step_results = <<>>
        /\ ResultAt = {}
        /\ outcome # "closed"

C11_Witness ==
    /\ Done
    /\ EmptyPlan
    /\ op = "execute_pipeline_iterator"
    /\ outcome = "exhausted"
    /\ Events = <<"pipeline_start", "pipeline_success">>

\* ---------------------------------------------------------------------------
\* The aggregator

\* The solids of a sequence of step results or of SolidExecutionResults.
SolidsOf(seq) == [i \in 1..Len(seq) |-> seq[i].solid]

\* The solids the step results are of.
SolidsWithResults == {step_results[i].solid : i \in 1..Len(step_results)}

\* C12: whatever the order of arrival of the step results, the
\* SolidExecutionResults are emitted in the topological order of the solids,
\* at most one per solid, only for solids that have a step result, and once
\* the stream of SolidExecutionResults has ended, for each of these.
C12_TopologicalOrder ==
    /\ \A i, j \in 1..Len(solid_results) :
          i < j => solid_results[i].solid < solid_results[j].solid
    /\ \A i \in 1..Len(solid_results) : solid_results[i].solid \in SolidsWithResults
    /\ TerminalAt # {} =>
          {solid_results[i].solid : i \in 1..Len(solid_results)} = SolidsWithResults

C12_Witness ==
    /\ TerminalAt # {}
    /\ SolidsOf(step_results) = <<2, 1, 2>>
    /\ SolidsOf(solid_results) = <<1, 2>>

\* Where the step result r is found in the emitted SolidExecutionResults:
\* <<i, k, j>> for the j-th entry of the list of kind k of the i-th one.
Places(r) ==
    {p \in (1..Len(solid_results)) \X StepKinds \X (1..Len(step_results)) :
        LET list == solid_results[p[1]].step_results_by_kind[p[2]]
        IN  p[3] <= Len(list) /\ list[p[3]] = r}

\* C13: every step result fed to the aggregator is in exactly one emitted
\* SolidExecutionResult, the one of its own solid, and there in the list of
\* its own kind, once: none is lost, duplicated or filed under another kind.
C13_Partition ==
    /\ \A n \in 1..Len(step_results) :
          LET r == step_results[n] IN
          /\ \A p \in Places(r) :
                solid_results[p[1]].solid = r.solid /\ p[2] = r.kind
          /\ Cardinality(Places(r)) <= 1
          /\ TerminalAt # {} => Cardinality(Places(r)) = 1
    /\ \A i \in 1..Len(solid_results), k \in StepKinds :
          \A j \in 1..Len(solid_results[i].step_results_by_kind[k]) :
             \E n \in 1..Len(step_results) :
                solid_results[i].step_results_by_kind[k][j] = step_results[n]

C13_Witness ==
    /\ TerminalAt # {}
    /\ Len(step_results) = MaxStream
    /\ SolidsOf(step_results) = <<1, 2, 1>>
    /\ Len(solid_results) = 2
    /\ Len(solid_results[1].step_results_by_kind["INPUT_EXPECTATION"]) = 1
    /\ Len(solid_results[1].step_results_by_kind["TRANSFORM"]) = 1
    /\ Len(solid_results[2].step_results_by_kind["OUTPUT_EXPECTATION"]) = 1

\* ---------------------------------------------------------------------------
\* The iterator

\* C14: execute_pipeline_iterator yields the SolidExecutionResult of a solid
\* before the steps of the solids after it in topological order are
\* executed.
C14_StreamsAsCompleted ==
    op = "execute_pipeline_iterator" =>
        \A i \in ResultAt, j \in StepAt : log[i].who < log[j].who => i < j

TeardownAt == {i \in 1..Len(log) : log[i].type = "teardown"}

\* C15: in execute_pipeline_iterator, while the consumer is at a yielded
\* result everything acquired is still held and no teardown code has run;
\* teardown code runs only after the last SolidExecutionResult was yielded
\* and the terminal event emitted.
C15_ScopeStaysOpen ==
    op = "execute_pipeline_iterator" =>
        /\ pc = "suspended" =>
              /\ TeardownAt = {}
              /\ ctx # "none"
              /\ Len(stack) = nres
        /\ \A t \in TeardownAt :
              /\ \E e \in TerminalAt : e < t
              /\ \A r \in ResultAt : r < t
              /\ SolidsToEmit(step_results, emitted) = {}

C15_Witness ==
    /\ Done
    /\ op = "execute_pipeline_iterator"
    /\ outcome = "exhausted"
    /\ Cardinality(ResultAt) = 2
    /\ Teardowns = <<1, UserContext>>

\* ---------------------------------------------------------------------------
\* The externalized runner

\* The exception that ends the run: in flight, or with the caller.
Raised == IF Done THEN err ELSE exc

ReadAt == {i \in 1..Len(log) : log[i].type = "read_value"}
WriteAt == {i \in 1..Len(log) : log[i].type = "write_value"}

\* The requests that name a step the plan does not have, and those that name
\* an input or output a step of the plan does not have.
NoSuchStep(requests) ==
    {i \in 1..Len(requests) : requests[i].step \notin 1..MaxSolids}
NoSuchName(requests, names) ==
    {i \in 1..Len(requests) :
        requests[i].step \in 1..MaxSolids /\ requests[i].name \notin names}

\* The run has ended, or is ending, with an error of class `kind` for request
\* i of `requests`, and neither the step engine nor the persistence policy was
\* called.
FailsValidation(requests, i, kind) ==
    /\ pc \in {"exit_scope", "done"}
    /\ Raised.kind = kind
    /\ Raised.who = requests[i].step
    /\ Done => outcome = "raised"
    /\ StepAt = {}
    /\ step_results = <<>>
    /\ ReadAt = {}
    /\ WriteAt = {}

\* C16: in execute_externalized_plan, when inputs_to_marshal or
\* outputs_to_marshal has a request that is wrong, the run fails at the first
\* of them: with DagsterExecutionStepNotFoundError for a step key that is not
\* in the plan, DagsterUnmarshalInputNotFoundError for an input name the step
\* does not have, DagsterMarshalOutputNotFoundError for an output name the step
\* does not have; no step was executed and read_value and write_value were not
\* called.
C16_ValidationErrors ==
    LET wrong_in == NoSuchStep(inputs_to_marshal)
                    \cup NoSuchName(inputs_to_marshal, StepInputNames)
        wrong_out == NoSuchStep(outputs_to_marshal)
                     \cup NoSuchName(outputs_to_marshal, StepOutputNames)
    IN  /\ wrong_in # {} =>
              FailsValidation(inputs_to_marshal, Min(wrong_in),
                              IF Min(wrong_in) \in NoSuchStep(inputs_to_marshal)
                              THEN "DagsterExecutionStepNotFoundError"
                              ELSE "DagsterUnmarshalInputNotFoundError")
        /\ wrong_out # {} =>
              FailsValidation(outputs_to_marshal, Min(wrong_out),
                              IF Min(wrong_out) \in NoSuchStep(outputs_to_marshal)
                              THEN "DagsterExecutionStepNotFoundError"
                              ELSE "DagsterMarshalOutputNotFoundError")

C16_Witness ==
    /\ Done
    /\ Len(inputs_to_marshal) = MaxMarshal
    /\ Len(outputs_to_marshal) = MaxMarshal
    /\ NoSuchStep(outputs_to_marshal) = {}
    /\ err.kind = "DagsterMarshalOutputNotFoundError"
    /\ err.name = "missing"

\* C17: in execute_externalized_plan, when the validation of
\* inputs_to_marshal or outputs_to_marshal raises, neither the user context
\* factory nor a resource factory has been invoked.
C17_ValidationBeforeContext ==
    Raised.site \in {"inputs_to_marshal", "outputs_to_marshal"} => Setups = <<>>

\* C18: in execute_externalized_plan, an exception of read_value ends the run
\* with DagsterUnmarshalInputError carrying the step key and the input name of
\* the request that was read and that exception as its cause; no step is
\* executed and nothing is written.
C18_ReadError ==
    \A i \in ReadAt :
        log[i].raised # "none" =>
            /\ pc \in {"exit_scope", "done"}
            /\ Raised = [kind |-> "DagsterUnmarshalInputError", site |-> "read_value",
                         who |-> inputs_to_marshal[log[i].path].step,
                         name |-> inputs_to_marshal[log[i].path].name,
                         cause |-> log[i].raised]
            /\ Done => outcome = "raised"
            /\ \A j \in ReadAt : j <= i
            /\ steps_left = 0
            /\ StepAt = {}
            /\ step_results = <<>>
            /\ WriteAt = {}

C18_Witness ==
    /\ Done
    /\ Cardinality(ReadAt) = 2
    /\ err.kind = "DagsterUnmarshalInputError"
    /\ err.who = 2
    /\ err.name = "num"
    /\ err.cause = "IOError"

\* The calls of write_value made for request q of outputs_to_marshal with the
\* value of the n-th step result.
WritesFor(n, q) ==
    {i \in WriteAt : /\ log[i].path = q
                     /\ log[i].value = step_results[n].value
                     /\ log[i].who = step_results[n].step
                     /\ log[i].shape = step_results[n].output}

\* The n-th step result succeeded and request q is for its step key and output.
Requested(n, q) ==
    /\ step_results[n].ok
    /\ outputs_to_marshal[q].step = step_results[n].step
    /\ outputs_to_marshal[q].name = step_results[n].output

ContextBuilt == pc \notin {"build_context", "exit_scope", "done"} \/ tags # NoTags

\* C20: when the tags of the user context and of the execution metadata share
\* no key, the tags of the RuntimeExecutionContext are {"pipeline": P.name}
\* with the user tags and the metadata tags, and the value of "pipeline" is
\* P.name whatever tag the user context or the execution metadata has under
\* that key.
C20_MergedTags ==
    (ContextBuilt /\ DOMAIN user_tags \cap DOMAIN meta_tags = {})
    => /\ DOMAIN tags = {PipelineKey} \cup DOMAIN user_tags \cup DOMAIN meta_tags
       /\ tags[PipelineKey] = PipelineName
       /\ \A k \in DOMAIN user_tags \ {PipelineKey} : tags[k] = user_tags[k]
       /\ \A k \in DOMAIN meta_tags \ {PipelineKey} : tags[k] = meta_tags[k]

\* The tags of the user context and of the execution metadata share a key.
TagsOverlap == DOMAIN user_tags \cap DOMAIN meta_tags # {}

\* C21: when the tags of the user context and of the execution metadata share
\* a key, the run fails with DagsterInvariantViolationError, no
\* pipeline_start is emitted and no step is executed.
C21_TagOverlapFails ==
    TagsOverlap =>
        /\ pc \in {"exit_scope", "done"}
        /\ Raised = Exc("DagsterInvariantViolationError", "get_tags", -1)
        /\ Done => outcome = "raised"
        /\ StartAt = {}
        /\ StepAt = {}
        /\ step_results = <<>>
        /\ tags = NoTags

C21_Witness ==
    /\ Done
    /\ op = "execute_pipeline"
    /\ nres = MaxResources
    /\ TagsOverlap
    /\ err.kind = "DagsterInvariantViolationError"

\* The factories that were acquired (with_maybe_gen reached its yield), in
\* acquisition order.
Acquired == SelectSeq(Setups, LAMBDA e : WithMaybeGenEnter(e.who, e.shape) = NoExc)

\* The user context, then the first n declared resources in declaration order.
FirstFactories(n) == [i \in 1..(n + 1) |-> i - 1]

\* C26: the user context factory is invoked first; the check that it returned
\* no resources fails before any resource factory is invoked; the resource
\* factories are invoked one by one in declaration order, each after the one
\* before it was acquired; the tag-overlap check and the persistence-key
\* check run, and fail, only with every declared resource acquired.
C26_SetupOrder ==
    /\ Setups # <<>> => Names(Setups) = FirstFactories(Len(Setups) - 1)
    /\ Len(Setups) <= nres + 1
    /\ Len(Acquired) >= Len(Setups) - 1
    /\ Raised.site = "context_resources" =>
          /\ nres > 0
          /\ Names(Setups) = <<UserContext>>
          /\ Acquired = Setups
    /\ (Raised.site \in {"get_tags", "persistence_key"} \/ pc = "build_context") =>
          Names(Acquired) = FirstFactories(nres)

C26_Witness ==
    /\ Done
    /\ err.site = "persistence_key"
    /\ nres = MaxResources
    /\ Names(Acquired) = FirstFactories(MaxResources)
    /\ Acquired[MaxResources + 1].shape = "gen"

\* C24: execute_externalized_plan called without execution metadata (and with
\* a valid environment) opens the context, as execute_plan and
\* execute_pipeline do: the user context factory is invoked and the call does
\* not end with an error about the execution_metadata argument.
C24_OmittedMetadataAccepted ==
    (/\ Done
     /\ op = "execute_externalized_plan"
     /\ ~meta_given
     /\ env_valid)
    => /\ Setups # <<>>
       /\ err.site # "execution_metadata"

\* The calls of write_value so far, in order.
Writes == SelectSeq(log, LAMBDA e : e.type = "write_value")

\* The calls of write_value that raised.
FailedWriteAt == {i \in WriteAt : log[i].raised # "none"}

\* C27: in execute_externalized_plan no output is written before the step
\* engine has produced all step results; when a write_value raises, the run
\* ends with DagsterMarshalOutputError carrying the step key, the output name
\* and the cause, the outputs requested after it (in result order) are not
\* written, those written before it stay written, and the caller gets the
\* error and no list of step results.
C27_WriteError ==
    LET writes == WriteValues(step_results, outputs_to_marshal) IN
    /\ WriteAt # {} =>
          /\ steps_left = 0
          /\ pc \in {"exit_scope", "done"}
          /\ \A i \in WriteAt, j \in StepAt : j < i
    /\ \A i \in FailedWriteAt :
          /\ \A j \in WriteAt : j <= i
          /\ Raised = MarshalError(log[i].who, log[i].shape, log[i].raised)
          /\ Done => outcome = "raised"
          /\ Len(Writes) <= Len(writes)
          /\ \A k \in 1..Len(Writes) :
                /\ Writes[k].who = writes[k].step
                /\ Writes[k].shape = writes[k].name
                /\ Writes[k].path = writes[k].path
                /\ Writes[k].value = writes[k].value
                /\ k < Len(Writes) => Writes[k].ok

C27_Witness ==
    /\ Done
    /\ outcome = "raised"
    /\ err.kind = "DagsterMarshalOutputError"
    /\ Len(Writes) = 2
    /\ Writes[1].ok
    /\ ~Writes[2].ok
    /\ Len(WriteValues(step_results, outputs_to_marshal)) > 2

\* The run is in the body of the scope of yield_context.
InScope ==
    pc \notin {"gen_created", "get_subset_pipeline", "create_typed_environment",
               "yield_context", "create_resources", "enter_resource",
               "build_context", "exit_scope", "done"}

\* A RuntimeExecutionContext was yielded in this run.
ContextYielded == tags # NoTags

AskedOutputNames == StepOutputNames \cup {"missing"}

\* C25: for every SolidExecutionResult, transformed_values is not None iff
\* every step result of the solid succeeded and one of them at least is of a
\* transform, and it then maps the output name of each transform result to
\* its value; transformed_value(name) raises DagsterInvariantViolationError
\* for a name that is not a declared output, and returns None for a declared
\* one when the solid did not succeed.
C25_TransformedValues ==
    \A n \in 1..Len(solid_results) :
       LET solid_result == solid_results[n]
           contained == ResultsOf(step_results, solid_result.solid)
           transforms == SelectSeq(contained, LAMBDA r : r.kind = "TRANSFORM")
           succeeded == \A i \in 1..Len(contained) : contained[i].ok
           values == TransformedValues(solid_result)
       IN  /\ values.defined <=> (succeeded /\ transforms # <<>>)
           /\ values.defined =>
                 /\ DOMAIN values.values =
                       {transforms[i].output : i \in 1..Len(transforms)}
                 /\ \A i \in 1..Len(transforms) :
                       values.values[transforms[i].output] = transforms[i].value
           /\ \A name \in AskedOutputNames :
                 LET got == TransformedValue(solid_result, name, StepOutputNames) IN
                 /\ name \notin StepOutputNames =>
                       got.raises = "DagsterInvariantViolationError"
                 /\ (name \in StepOutputNames /\ ~succeeded) =>
                       got = [raises |-> "none", value |-> None]
                 /\ (values.defined /\ name \in DOMAIN values.values) =>
                       got = [raises |-> "none", value |-> values.values[name]]

C25_Witness ==
    /\ Done
    /\ Len(solid_results) = 1
    /\ TransformedValues(solid_results[1]).defined
    /\ Cardinality(DOMAIN TransformedValues(solid_results[1]).values) = 2
    /\ solid_results[1].step_results_by_kind["INPUT_EXPECTATION"] # <<>>

\* A list of names without the later occurrences of a name.
RECURSIVE WithoutDuplicates(_)
WithoutDuplicates(names) ==
    IF names = <<>>
    THEN <<>>
    ELSE LET front == WithoutDuplicates(SubSeq(names, 1, Len(names) - 1))
             last == names[Len(names)]
         IN  IF \E i \in 1..Len(front) : front[i] = last THEN front ELSE Append(front, last)

\* get_subset_pipeline has returned the result of build_sub_pipeline.
SubPipelineBuilt == pc # "get_subset_pipeline" /\ ~solid_subset.none

\* C22: the result of build_sub_pipeline(P, S) has a dependency for an input
\* of a kept solid iff P has a dependency for that input and the solid that
\* produces it is in S, and it is the dependency P has; every dependency of
\* the result is on a solid in S; and the result is the one for S without
\* its duplicates.
C22_SubsetDependencies ==
    SubPipelineBuilt =>
       LET S == {solid_subset.names[i] : i \in 1..Len(solid_subset.names)}
           result == pipeline_to_execute.dependencies
       IN  /\ DOMAIN result = S
           /\ \A solid \in S, input \in SolidInputNames :
                 /\ input \in DOMAIN result[solid]
                    <=> /\ <<solid, input>> \in DOMAIN dependencies
                        /\ dependencies[<<solid, input>>].solid \in S
                 /\ input \in DOMAIN result[solid]
                    => result[solid][input] = dependencies[<<solid, input>>]
           /\ \A solid \in S : \A input \in DOMAIN result[solid] :
                 result[solid][input].solid \in S
           /\ pipeline_to_execute =
                 BuildSubPipeline(dependencies, WithoutDuplicates(solid_subset.names))

C22_Witness ==
    /\ SubPipelineBuilt
    /\ solid_subset.names = <<MaxSubSolids, MaxSubSolids - 1, MaxSubSolids>>
    /\ <<MaxSubSolids, "num">> \in DOMAIN dependencies
    /\ <<MaxSubSolids, "den">> \in DOMAIN dependencies
    /\ dependencies[<<MaxSubSolids, "num">>].solid = MaxSubSolids - 1
    /\ dependencies[<<MaxSubSolids, "den">>].solid = MaxSubSolids - 2
    /\ DOMAIN pipeline_to_execute.dependencies[MaxSubSolids] = {"num"}

====
